---- MODULE Spec2Model ----
(***************************************************************************)
(* Model of deptry's configuration resolution (src/deptry/config.py):      *)
(* Config.__init__ sets every setting to its default, overrides it with    *)
(* the [tool.deptry] section of ./pyproject.toml, then with the truthy     *)
(* constructor (command line) arguments, logging each change.              *)
(*                                                                         *)
(* Python values are records [t |-> type tag, v |-> payload], the payload  *)
(* always a sequence of strings, so values of different Python types can   *)
(* be compared.  A str is the sequence of its tokens, a list the sequence  *)
(* of its (string) elements.                                               *)
(***************************************************************************)
EXTENDS Naturals, Sequences, FiniteSets

\* ------------------------------------------------------------------ bounds
\* At most MaxFocus settings are given a manifest key or an override in one
\* construction; the other settings have no key and the override None.
MaxFocus == 2
\* Constructions of a Config in one process (SpecMut only).
MaxConstructions == 2
\* In-place mutations a consumer makes on resolved list settings (SpecMut only).
MaxMutations == 1

\* ------------------------------------------------------------ Python values
PyNone == [t |-> "none", v |-> <<>>]
PyBool(b) == [t |-> "bool", v |-> IF b THEN <<"True">> ELSE <<"False">>]
PyList(s) == [t |-> "list", v |-> s]
PyStr(s) == [t |-> "str", v |-> s]
PyInt(s) == [t |-> "int", v |-> <<s>>]
\* a dictionary key that is not there
Absent == [t |-> "absent", v |-> <<>>]
\* an attribute that was never assigned
Unset == [t |-> "unset", v |-> <<>>]
\* the same object as the one DEFAULTS[f] is bound to
Ref(f) == [t |-> "ref", v |-> <<f>>]

ListFields == {"ignore_obsolete", "ignore_missing", "ignore_transitive", "ignore_directories"}
BoolFields == {"ignore_notebooks", "skip_obsolete", "skip_missing", "skip_transitive"}
Fields == ListFields \cup BoolFields
\* a key of [tool.deptry] that Config does not know
UnknownKey == "exclude"
ManifestKeys == Fields \cup {UnknownKey}

\* The module-level DEFAULTS table as written in the source.
DefaultsTable ==
    [f \in Fields |->
        CASE f = "ignore_obsolete" -> PyList(<<>>)
          [] f = "ignore_missing" -> PyList(<<>>)
          [] f = "ignore_transitive" -> PyList(<<>>)
          [] f = "ignore_directories" -> PyList(<<".venv", "tests">>)
          [] f = "ignore_notebooks" -> PyBool(FALSE)
          [] f = "skip_obsolete" -> PyBool(FALSE)
          [] f = "skip_missing" -> PyBool(FALSE)
          [] f = "skip_transitive" -> PyBool(FALSE)]

VARIABLES
    pc,        \* position in Config.__init__: new, set_defaults, read, toml, cli, done, raised
    idx,       \* the next _override_with_toml_argument call of the manifest pass
    args,      \* the arguments of Config.__init__, by parameter name
    pyproject, \* ./pyproject.toml as the file system holds it
    DEFAULTS,  \* the module-level table (its list objects are mutable)
    self,      \* the attributes of the Config object under construction
    pyproject_toml_config, \* the local of _override_config_with_pyproject_toml
    log,       \* the debug lines logged by the current construction
    prev,      \* the previous construction: its inputs and the settings it resolved
    nConstructed,
    nMutations

vars == <<pc, idx, args, pyproject, DEFAULTS, self, pyproject_toml_config, log, prev,
          nConstructed, nMutations>>

\* The object an attribute or a table entry is bound to, dereferenced.
Deref(x, defaults) == IF x.t = "ref" THEN defaults[x.v[1]] ELSE x
\* The value a reader of self.<f> sees.
Value(f) == Deref(self[f], DEFAULTS)

\* Python's truth test of "if x:" on a value
TruthyNotNone(x) == x.t # "none"
Truthy(x) ==
    CASE x.t = "none" -> FALSE
      [] x.t = "bool" -> x.v = <<"True">>
      [] x.t = "int" -> x.v # <<"0">>
      [] x.t \in {"str", "list"} -> x.v # <<>>
      [] OTHER -> TRUE

\* ------------------------------------------------------------ pyproject.toml
NoItems == [k \in ManifestKeys |-> Absent]
\* A TOML value bound to tool.deptry: a table (items) or a scalar or array (t, v).
TomlTable(items) == [t |-> "table", v |-> <<>>, items |-> items]
TomlScalar(x) == [t |-> x.t, v |-> x.v, items |-> NoItems]
NoConfig == TomlScalar(PyNone)

\* Truth test of "if pyproject_toml_config:": an empty dict is falsy.
ConfigTruthy(c) ==
    IF c.t = "table" THEN \E k \in ManifestKeys : c.items[k] # Absent
    ELSE Truthy([t |-> c.t, v |-> c.v])

\* The exception the body of the try block raises, or "none":
\* Path.read_text on a missing file, toml.loads on text that is not TOML,
\* and the two subscripts of pyproject_data["tool"]["deptry"].
ReadException(p) ==
    CASE p.kind = "missing" -> "FileNotFoundError"
      [] p.kind = "unparsable" -> "TomlDecodeError"
      [] p.kind = "no_tool" -> "KeyError"
      [] p.kind = "no_deptry" -> "KeyError"
      [] OTHER -> "none"

\* A debug line: the message's fixed text and the values formatted into it.
LogLine(msg, argument, value, by) ==
    [msg |-> msg, argument |-> argument, value |-> value, by |-> by]
NoConfigurationLine ==
    LogLine("No configuration for deptry was found in pyproject.toml.", "", <<>>, "")

\* _read_configuration_from_pyproject_toml: the value of tool.deptry, or None
\* and a debug line when anything in the try block raised (bare except).
ReadConfigurationUncaught(p) ==
    IF ReadException(p) = "none"
    THEN [ret |-> p.deptry, log |-> <<>>, raised |-> "none"]
    ELSE [ret |-> NoConfig, log |-> <<>>, raised |-> ReadException(p)]
ReadConfigurationFromPyprojectToml(p) ==
    IF ReadException(p) = "none"
    THEN [ret |-> p.deptry, log |-> <<>>, raised |-> "none"]
    ELSE [ret |-> NoConfig, log |-> <<NoConfigurationLine>>, raised |-> "none"]

\* str(value) as the f-string formats it: a list shows its brackets, a str and
\* a bool show their text (so the str "True" and the bool True read the same).
Str(x) ==
    IF x.t = "list" THEN <<"[">> \o x.v \o <<"]">> ELSE x.v

\* _log_changed_by_pyproject_toml
LogChangedByPyprojectToml(argument, value) ==
    LogLine("Argument set", argument, Str(value), "pyproject.toml")
\* _log_changed_by_command_line_argument (the source's text names pyproject.toml)
LogChangedByCommandLineArgument(argument, value) ==
    LogLine("Argument set", argument, Str(value), "pyproject.toml")

\* "argument in pyproject_toml_config": key membership on a dict, substring on
\* a str (token granularity), element membership on a list, TypeError otherwise.
\* [ok |-> the test could be evaluated, is |-> its result]
TomlContainsTruthyOnly(argument, c) ==
    CASE c.t = "table" -> [ok |-> TRUE,
                           is |-> c.items[argument] # Absent /\ Truthy(c.items[argument])]
      [] c.t \in {"str", "list"} -> [ok |-> TRUE, is |-> \E i \in DOMAIN c.v : c.v[i] = argument]
      [] OTHER -> [ok |-> FALSE, is |-> FALSE]
TomlContains(argument, c) ==
    CASE c.t = "table" -> [ok |-> TRUE, is |-> c.items[argument] # Absent]
      [] c.t \in {"str", "list"} -> [ok |-> TRUE, is |-> \E i \in DOMAIN c.v : c.v[i] = argument]
      [] OTHER -> [ok |-> FALSE, is |-> FALSE]

\* "pyproject_toml_config[argument]": a str or a list takes no str subscript.
TomlGetItem(argument, c) ==
    IF c.t = "table" THEN [ok |-> TRUE, value |-> c.items[argument]]
    ELSE [ok |-> FALSE, value |-> Absent]

\* The attribute "setattr(self, argument, value)" assigns.
SetattrTargetSwapped(argument) ==
    CASE argument = "skip_missing" -> "skip_obsolete"
      [] argument = "skip_obsolete" -> "skip_missing"
      [] OTHER -> argument
SetattrTarget(argument) == argument

\* _override_with_toml_argument on the attributes s and the log l:
\* [self, log, raised]
OverrideWithTomlArgument(argument, c, s, l) ==
    LET has == TomlContains(argument, c)
        got == TomlGetItem(argument, c)
    IN  CASE ~has.ok -> [self |-> s, log |-> l, raised |-> "TypeError"]
          [] ~has.is -> [self |-> s, log |-> l, raised |-> "none"]
          [] ~got.ok -> [self |-> s, log |-> l, raised |-> "TypeError"]
          [] OTHER ->
               [self |-> [s EXCEPT ![SetattrTarget(argument)] = got.value],
                log |-> Append(l, LogChangedByPyprojectToml(argument, got.value)),
                raised |-> "none"]

\* The calls of _override_config_with_pyproject_toml, in order.
TomlArguments ==
    <<"ignore_obsolete", "ignore_missing", "ignore_transitive", "skip_missing",
      "skip_obsolete", "skip_transitive", "ignore_directories", "ignore_notebooks">>

\* _set_defaults: every attribute is bound to the object DEFAULTS holds.
SetDefaultsForgetful == [f \in Fields |-> IF f = "ignore_notebooks" THEN Unset ELSE Ref(f)]
SetDefaults == [f \in Fields |-> Ref(f)]

\* ------------------------------------------------------------ the CLI pass
\* The arguments __init__ passes positionally to
\* _override_config_with_cli_arguments, as written at the call.
CliCallArgumentsInitOrder(a) ==
    <<a["ignore_obsolete"], a["ignore_missing"], a["ignore_transitive"],
      a["skip_obsolete"], a["skip_missing"], a["skip_transitive"],
      a["ignore_directories"], a["ignore_notebooks"]>>
CliCallArguments(a) ==
    <<a["ignore_obsolete"], a["ignore_missing"], a["ignore_transitive"],
      a["ignore_directories"], a["ignore_notebooks"],
      a["skip_obsolete"], a["skip_missing"], a["skip_transitive"]>>

\* The parameters of _override_config_with_cli_arguments, in order.
CliParameters ==
    <<"ignore_obsolete", "ignore_missing", "ignore_transitive", "ignore_directories",
      "ignore_notebooks", "skip_obsolete", "skip_missing", "skip_transitive">>

\* The parameter each positional argument is bound to.
BindCliParameters(positional) ==
    [f \in Fields |-> positional[CHOOSE i \in DOMAIN CliParameters : CliParameters[i] = f]]

\* The "if <parameter>:" statements of the body, in order.
CliStatements ==
    <<"ignore_obsolete", "ignore_missing", "ignore_transitive", "skip_obsolete",
      "skip_missing", "skip_transitive", "ignore_directories", "ignore_notebooks">>

\* Statements i.. of _override_config_with_cli_arguments on the attributes s
\* and the log l, the parameters bound as in p: [self, log]
RECURSIVE OverrideConfigWithCliArguments(_, _, _, _)
OverrideConfigWithCliArguments(i, p, s, l) ==
    IF i > Len(CliStatements) THEN [self |-> s, log |-> l]
    ELSE LET f == CliStatements[i]
         IN  IF Truthy(p[f])
             THEN OverrideConfigWithCliArguments(i + 1, p,
                      [s EXCEPT ![f] = p[f]],
                      Append(l, LogChangedByCommandLineArgument(f, p[f])))
             ELSE OverrideConfigWithCliArguments(i + 1, p, s, l)

\* ------------------------------------------------------------------ inputs
\* What a caller passes for a setting: nothing, an empty value, a value.
OverrideValues(f) ==
    IF f \in ListFields THEN {PyNone, PyList(<<>>), PyList(<<"pkgB">>)}
    ELSE {PyNone, PyBool(FALSE), PyBool(TRUE)}
\* What [tool.deptry] holds under a key: no such key, an empty or false value,
\* a value, a value of another type than the setting's.
ManifestValues(k) ==
    CASE k \in ListFields -> {Absent, PyList(<<>>), PyList(<<"pkgC">>), PyStr(<<"pkgC">>)}
      [] k \in BoolFields -> {Absent, PyBool(FALSE), PyBool(TRUE), PyStr(<<"pkgC">>)}
      [] OTHER -> {Absent, PyList(<<"foo">>)}
AllOverrideValues == UNION {OverrideValues(f) : f \in Fields}
AllManifestValues == UNION {ManifestValues(k) : k \in ManifestKeys}

FocusSets == {F \in SUBSET ManifestKeys : Cardinality(F) <= MaxFocus}

\* tool.deptry bound to something that is not a table
MalformedSections ==
    {TomlScalar(x) : x \in {PyInt("5"), PyInt("0"), PyBool(TRUE), PyStr(<<>>),
                            PyStr(<<"abc">>), PyStr(<<"see", "skip_missing">>),
                            PyList(<<>>), PyList(<<"abc">>), PyList(<<"ignore_missing">>)}}

Tables(F) ==
    {TomlTable([k \in ManifestKeys |-> IF k \in F THEN m[k] ELSE Absent]) :
        m \in {x \in [F -> AllManifestValues] : \A k \in F : x[k] \in ManifestValues(k)}}

Pyprojects(F) ==
    {[kind |-> k, deptry |-> NoConfig] : k \in {"missing", "unparsable", "no_tool", "no_deptry"}}
    \cup {[kind |-> "deptry", deptry |-> d] : d \in MalformedSections \cup Tables(F)}

Arguments(F) ==
    {[f \in Fields |-> IF f \in F THEN o[f] ELSE PyNone] :
        o \in {x \in [F \cap Fields -> AllOverrideValues] :
                  \A f \in F \cap Fields : x[f] \in OverrideValues(f)}}

NoSelf == [f \in Fields |-> Unset]
NoPrev == [n |-> 0, self |-> NoSelf, resolved |-> NoSelf]

\* ----------------------------------------------------------------- actions
Init ==
    /\ pc = "new"
    /\ idx = 1
    /\ args = [f \in Fields |-> PyNone]
    /\ pyproject = [kind |-> "missing", deptry |-> NoConfig]
    /\ DEFAULTS = DefaultsTable
    /\ self = NoSelf
    /\ pyproject_toml_config = NoConfig
    /\ log = <<>>
    /\ prev = NoPrev
    /\ nConstructed = 0
    /\ nMutations = 0

\* Config(...) is called in a directory whose pyproject.toml is in some state.
Construct ==
    /\ pc = "new"
    /\ \E F \in FocusSets :
          /\ pyproject' \in Pyprojects(F)
          /\ args' \in Arguments(F)
    /\ pc' = "set_defaults"
    /\ UNCHANGED <<idx, DEFAULTS, self, pyproject_toml_config, log, prev, nConstructed,
                   nMutations>>

\* self._set_defaults()
DoSetDefaults ==
    /\ pc = "set_defaults"
    /\ self' = SetDefaults
    /\ pc' = "read"
    /\ UNCHANGED <<idx, args, pyproject, DEFAULTS, pyproject_toml_config, log, prev,
                   nConstructed, nMutations>>

\* pyproject_toml_config = self._read_configuration_from_pyproject_toml()
\* if pyproject_toml_config: ...
DoReadConfiguration ==
    /\ pc = "read"
    /\ LET r == ReadConfigurationFromPyprojectToml(pyproject)
       IN  /\ pyproject_toml_config' = r.ret
           /\ log' = log \o r.log
           /\ pc' = CASE r.raised # "none" -> "raised"
                      [] ConfigTruthy(r.ret) -> "toml"
                      [] OTHER -> "cli"
    /\ idx' = 1
    /\ UNCHANGED <<args, pyproject, DEFAULTS, self, prev, nConstructed, nMutations>>

\* self._override_with_toml_argument(TomlArguments[idx], ...)
DoOverrideWithTomlArgument ==
    /\ pc = "toml"
    /\ LET r == OverrideWithTomlArgument(TomlArguments[idx], pyproject_toml_config, self, log)
       IN  /\ self' = r.self
           /\ log' = r.log
           /\ pc' = CASE r.raised # "none" -> "raised"
                      [] idx = Len(TomlArguments) -> "cli"
                      [] OTHER -> "toml"
           /\ idx' = IF r.raised = "none" /\ idx < Len(TomlArguments) THEN idx + 1 ELSE idx
    /\ UNCHANGED <<args, pyproject, DEFAULTS, pyproject_toml_config, prev, nConstructed,
                   nMutations>>

\* self._override_config_with_cli_arguments(...)
DoOverrideConfigWithCliArguments ==
    /\ pc = "cli"
    /\ LET r == OverrideConfigWithCliArguments(1, BindCliParameters(CliCallArguments(args)),
                                               self, log)
       IN  /\ self' = r.self
           /\ log' = r.log
    /\ pc' = "done"
    /\ nConstructed' = nConstructed + 1
    /\ UNCHANGED <<idx, args, pyproject, DEFAULTS, pyproject_toml_config, prev, nMutations>>

Next ==
    \/ Construct
    \/ DoSetDefaults
    \/ DoReadConfiguration
    \/ DoOverrideWithTomlArgument
    \/ DoOverrideConfigWithCliArguments

Spec == Init /\ [][Next]_vars

\* ------------------------------------------- a process that resolves again
\* The resolved Config is handed to its consumer; the process goes on.
Retain ==
    /\ pc = "done"
    /\ nConstructed < MaxConstructions
    /\ prev' = [n |-> nConstructed, self |-> self, resolved |-> [f \in Fields |-> Value(f)]]
    /\ pc' = "between"
    /\ UNCHANGED <<idx, args, pyproject, DEFAULTS, self, pyproject_toml_config, log,
                   nConstructed, nMutations>>

\* The consumer appends to a list setting of the Config it holds, in place
\* (config.<f>.append("x")): the list is the object the attribute is bound to.
Mutate ==
    /\ pc = "between"
    /\ nMutations < MaxMutations
    /\ \E f \in Fields :
          /\ Deref(prev.self[f], DEFAULTS).t = "list"
          /\ IF prev.self[f].t = "ref"
             THEN /\ DEFAULTS' = [DEFAULTS EXCEPT ![prev.self[f].v[1]] =
                                     PyList(Append(@.v, "x"))]
                  /\ prev' = prev
             ELSE /\ prev' = [prev EXCEPT !.self[f] = PyList(Append(@.v, "x"))]
                  /\ DEFAULTS' = DEFAULTS
    /\ nMutations' = nMutations + 1
    /\ UNCHANGED <<pc, idx, args, pyproject, self, pyproject_toml_config, log, nConstructed>>

\* Config(...) is called again with the same arguments, pyproject.toml unchanged.
ConstructAgain ==
    /\ pc = "between"
    /\ pc' = "set_defaults"
    /\ self' = NoSelf
    /\ log' = <<>>
    /\ pyproject_toml_config' = NoConfig
    /\ idx' = 1
    /\ UNCHANGED <<args, pyproject, DEFAULTS, prev, nConstructed, nMutations>>

NextMut ==
    \/ Next
    \/ Retain
    \/ Mutate
    \/ ConstructAgain

SpecMut == Init /\ [][NextMut]_vars

\* ------------------------------------------------------------------ claims
\* The documented default of each setting (the specification's table).
Documented(f) ==
    CASE f \in {"ignore_obsolete", "ignore_missing", "ignore_transitive"} -> PyList(<<>>)
      [] f = "ignore_directories" -> PyList(<<".venv", "tests">>)
      [] OTHER -> PyBool(FALSE)
\* An override that is an empty list, False or None.
Falsy(x) == x \in {PyNone, PyList(<<>>), PyBool(FALSE)}
\* The manifest's [tool.deptry] is a table that has the key f.
HasKey(f) ==
    /\ pyproject.kind = "deptry"
    /\ pyproject.deptry.t = "table"
    /\ pyproject.deptry.items[f] # Absent
ManifestValue(f) == pyproject.deptry.items[f]
ManifestOrDefault(f) == IF HasKey(f) THEN ManifestValue(f) ELSE Documented(f)
\* The manifest supplies nothing: no file, no TOML, no section, an empty section.
NoSection ==
    \/ pyproject.kind \in {"missing", "unparsable", "no_tool", "no_deptry"}
    \/ pyproject.kind = "deptry" /\ pyproject.deptry = TomlTable(NoItems)
AllOverridesFalsy == \A f \in Fields : Falsy(args[f])
\* The debug lines about the setting f, in the order logged.
LinesFor(f) == SelectSeq(log, LAMBDA l : l.msg = "Argument set" /\ l.argument = f)

\* C1: when construction completes, every setting whose override is truthy
\* holds exactly that override, whatever the manifest and the default are.
C1_OverrideWins ==
    pc = "done" => \A f \in Fields : ~Falsy(args[f]) => Value(f) = args[f]
C1_Witness ==
    /\ pc = "done"
    /\ HasKey("ignore_transitive")
    /\ ManifestValue("ignore_transitive") = PyList(<<"pkgC">>)
    /\ args["ignore_transitive"] = PyList(<<"pkgB">>)
    /\ Value("ignore_transitive") = PyList(<<"pkgB">>)

\* C2: the override pass leaves every setting whose override is falsy (empty
\* list, False, None) as it was, so that setting resolves to the manifest
\* value when the section has the key and to the default otherwise.
C2_FalsyOverrideIgnored ==
    [][pc = "cli" =>
         \A f \in Fields : Falsy(args[f]) =>
            /\ self'[f] = self[f]
            /\ Value(f)' = ManifestOrDefault(f)
            /\ LinesFor(f)' = LinesFor(f)]_vars
C2_Witness ==
    /\ pc = "done"
    /\ HasKey("skip_obsolete")
    /\ ManifestValue("skip_obsolete") = PyBool(TRUE)
    /\ args["skip_obsolete"] = PyBool(FALSE)
    /\ Value("skip_obsolete") = PyBool(TRUE)

\* C3: a key present in [tool.deptry] whose override is falsy resolves to the
\* manifest value as it is (empty, false or of another type), which replaces
\* the default and is not appended to it.
C3_ManifestValueAsIs ==
    pc = "done" =>
        \A f \in Fields : (HasKey(f) /\ Falsy(args[f])) => Value(f) = ManifestValue(f)
C3_Witness ==
    /\ pc = "done"
    /\ HasKey("ignore_directories")
    /\ ManifestValue("ignore_directories") = PyList(<<>>)
    /\ Falsy(args["ignore_directories"])
    /\ Value("ignore_directories") = PyList(<<>>)
    /\ HasKey("ignore_missing")
    /\ Value("ignore_missing") = PyStr(<<"pkgC">>)

\* C4: constructing Config never raises, whatever pyproject.toml holds.
C4_NeverRaises == pc # "raised"

\* C5: with nothing from the manifest and every override falsy each setting
\* resolves to its documented default; and once _set_defaults has run every
\* setting is defined, however the construction ends.
C5_Defaults ==
    /\ (pc = "done" /\ AllOverridesFalsy /\ \A f \in Fields : ~HasKey(f))
          => \A f \in Fields : Value(f) = Documented(f)
    /\ pc \in {"read", "toml", "cli", "done", "raised"}
          => \A f \in Fields : Value(f).t \in {"list", "bool", "str"}
C5_Witness ==
    /\ pc = "done"
    /\ pyproject.kind = "missing"
    /\ AllOverridesFalsy
    /\ args["ignore_missing"] = PyList(<<>>)
    /\ Value("ignore_directories") = PyList(<<".venv", "tests">>)
    /\ Value("skip_missing") = PyBool(FALSE)

\* C6: a missing file, a file that is not TOML, a file without tool.deptry and
\* an empty tool.deptry section all resolve alike: nothing is raised, the
\* manifest pass changes no setting and logs no change, and the result is the
\* truthy overrides over the defaults.
C6_NoSectionAlike ==
    NoSection =>
        /\ pc \notin {"raised", "toml"}
        /\ pc = "cli" => (self = [f \in Fields |-> Ref(f)]
                          /\ \A f \in Fields : LinesFor(f) = <<>>)
        /\ pc = "done" => \A f \in Fields :
                              Value(f) = IF Falsy(args[f]) THEN Documented(f) ELSE args[f]
C6_Witness ==
    /\ pc = "done"
    /\ pyproject.kind = "deptry"
    /\ pyproject.deptry = TomlTable(NoItems)
    /\ args["ignore_obsolete"] = PyList(<<"pkgB">>)
    /\ Value("ignore_obsolete") = PyList(<<"pkgB">>)
    /\ Value("ignore_directories") = Documented("ignore_directories")

\* C7: every assignment by the manifest or by an override logs exactly one
\* line with the setting's name and new value, the manifest's lines attributed
\* to pyproject.toml and the overrides' lines not to pyproject.toml.
C7_LogProvenance ==
    pc = "done" => \A f \in Fields :
        LET lines == LinesFor(f)
            byManifest == IF HasKey(f) THEN 1 ELSE 0
            byOverride == IF Falsy(args[f]) THEN 0 ELSE 1
        IN  /\ Len(lines) = byManifest + byOverride
            /\ HasKey(f) => /\ lines[1].value = Str(ManifestValue(f))
                            /\ lines[1].by = "pyproject.toml"
            /\ ~Falsy(args[f]) => /\ lines[Len(lines)].value = Str(args[f])
                                  /\ lines[Len(lines)].by # "pyproject.toml"

\* C8: a missing file logs "No pyproject.toml file to read configuration
\* from.", a file without tool.deptry logs "No configuration for deptry was
\* found in pyproject.toml."; neither raises and both return None.
C8_DistinctMessages ==
    pc \in {"cli", "done", "raised"} =>
        /\ pyproject.kind = "missing" =>
              /\ \E i \in DOMAIN log :
                    log[i].msg = "No pyproject.toml file to read configuration from."
              /\ pc # "raised" /\ pyproject_toml_config = NoConfig
        /\ pyproject.kind \in {"no_tool", "no_deptry"} =>
              /\ \E i \in DOMAIN log :
                    log[i].msg = "No configuration for deptry was found in pyproject.toml."
              /\ pc # "raised" /\ pyproject_toml_config = NoConfig

\* C9: each resolved setting g is a function of the default of g, the manifest
\* key named g and the constructor argument named g alone: no other key
\* (known or unknown) and no other argument reaches it.
C9_PerField ==
    pc = "done" => \A g \in Fields :
        Value(g) = IF ~Falsy(args[g]) THEN args[g]
                   ELSE IF HasKey(g) THEN ManifestValue(g)
                   ELSE Documented(g)
C9_Witness ==
    /\ pc = "done"
    /\ args["skip_obsolete"] = PyBool(TRUE)
    /\ HasKey("skip_missing")
    /\ ManifestValue("skip_missing") = PyBool(TRUE)
    /\ Value("skip_obsolete") = PyBool(TRUE)
    /\ Value("skip_missing") = PyBool(TRUE)
    /\ Value("ignore_directories") = Documented("ignore_directories")
    /\ Value("skip_transitive") = PyBool(FALSE)

\* C10: a second construction with the same manifest and the same overrides
\* resolves the same settings as the first, whatever the consumer did with
\* the first Config in between (no list of it is shared with DEFAULTS).
C10_Deterministic ==
    (pc = "done" /\ prev.n > 0) => \A f \in Fields : Value(f) = prev.resolved[f]

====
